---- MODULE Spec2Model ----
(***************************************************************************)
(* Model of the Spotify playlist organiser: the Analysis and Dashboard    *)
(* components of the front end (src/frontend/src/components) and the      *)
(* engine operations they call (merge, catalog batches, playlist          *)
(* creation, playlist deletion).  The engine's code is not among the      *)
(* sources; its operations are modelled from the specification and are    *)
(* marked as such where they are defined.                                 *)
(*                                                                         *)
(* Text is modelled as a sequence of one-character strings so that        *)
(* charAt / toUpperCase / slice / concatenation are computed.             *)
(***************************************************************************)
EXTENDS Integers, Sequences, FiniteSets, TLC

\* ------------------------------------------------------------------ bounds

\* How many times the route parameter of /analyze/:id may change while the
\* Analysis component stays mounted.
MaxRouteChanges == 1

\* How many create requests (genre or vibe) one Analysis session may post.
MaxCreates == 1

\* How many DELETE requests one Dashboard session may issue.
MaxDeleteAttempts == 3

\* How many times one card of the Dashboard may be clicked.
MaxToggles == 2

\* How many playlist ids one merge request may name.
MaxSources == 2

\* How many entity ids one catalog fetch may ask for.
MaxIds == 5

\* ------------------------------------------------------------------ text

Null == [isNull |-> TRUE]

\* selectedGenre's null: a value no genre text equals (a text is a sequence of
\* single characters).
NoGenre == <<"null">>

ToUpperCase(c) ==
    CASE c = "r" -> "R"
      [] c = "p" -> "P"
      [] c = "j" -> "J"
      [] c = "c" -> "C"
      [] c = "d" -> "D"
      [] c = "i" -> "I"
      [] OTHER -> c

\* genre.charAt(0).toUpperCase() + genre.slice(1)
Capitalize(s) == IF s = <<>> THEN <<>> ELSE <<ToUpperCase(s[1])>> \o Tail(s)

\* `${x} Mix`
MixName(s) == s \o <<" ", "M", "i", "x">>

\* A name is blank when it has no character other than a space.
IsBlank(s) == \A i \in 1..Len(s) : s[i] = " "

\* Array.prototype.includes
Includes(arr, x) == \E i \in 1..Len(arr) : arr[i] = x

\* Array.prototype.map(t => t.uri)
MapUri(arr) == [i \in 1..Len(arr) |-> arr[i].uri]

Min(a, b) == IF a < b THEN a ELSE b

\* ------------------------------------------------------------------ state

VARIABLES
    \* Analysis.jsx
    routeId,        \* useParams().id, the comma-separated playlist ids
    data,           \* useState(null): the analysis response, or Null
    loading,        \* useState(true)
    selectedGenre,  \* useState(null)
    modal,          \* useState({isOpen, type, title, message, onConfirm})
    fetches,        \* GET /api/analyze requests in flight, per route id
    createReq,      \* the POST create request in flight and its progress, or Null
    posted,         \* number of create requests posted so far
    lastFetch,      \* the analysis fetch that completed last: [id, outcome]
    lastHandle,     \* how the last handleCreatePlaylist call ended, "none" before
    routeChanges,   \* number of route parameter changes so far
    lastResponse,   \* the response behind the result the modal shows, or Null
    fetchHist,      \* whether the id changed during a fetch, whether a fetch failed
    \* the user's library in the catalog: playlists [id, name, uris]
    library,
    \* Dashboard.jsx
    playlists,          \* useState([]): the playlists shown, in listing order
    selectedPlaylists,  \* useState(new Set()): a Set, kept in insertion order
    dashLoading,        \* useState(true), Dashboard's loading
    deleteModal,        \* useState({isOpen, playlist, isDeleting})
    listReq,            \* GET /api/playlists: "pending", "resolved" or "rejected"
    deleteReq,          \* the DELETE request in flight: [id, stage], or Null
    navigated,          \* the ids handleAnalyze navigated with, <<>> before
    followed,           \* the ids of the playlists in the user's library
    deleteCalls,        \* per id, how often the engine ran deletePlaylist on it
    deleteAttempts,     \* number of DELETE requests issued so far
    lastDelete,         \* the last deletePlaylist run: [id, result, wasAbsent]
    toggles,            \* per id, the number of toggleSelection calls on it
    \* Track Merger & Deduplicator
    mergePhase,         \* "idle", "running" or "done"
    mergeIds,           \* the requested playlist-id sequence
    pageState,          \* per slot <<position, page>>: "none", "inflight" or "done"
    buffer,             \* per slot, the tracks its fetch returned
    mergePos,           \* where the accumulation stands: [i, k, j]
    trackSet,           \* the TrackSet accumulated so far
    completions,        \* the slots in the order their fetches completed
    \* Catalog Client Adapter
    batchPhase,         \* "idle", "running", "done" or "failed"
    chunks,             \* per chunk: [ids, state, retries, signals, reason]
    failure             \* the condition the operation surfaced, "none" if none

analysisVars == <<routeId, data, loading, selectedGenre, modal, fetches,
                  createReq, posted, lastFetch, lastHandle, routeChanges,
                  lastResponse, fetchHist, library>>

dashboardVars == <<playlists, selectedPlaylists, dashLoading, deleteModal, listReq,
                   deleteReq, navigated, followed, deleteCalls, deleteAttempts,
                   lastDelete, toggles>>

mergeVars == <<mergePhase, mergeIds, pageState, buffer, mergePos, trackSet,
               completions>>

batchVars == <<batchPhase, chunks, failure>>

vars == <<analysisVars, dashboardVars, mergeVars, batchVars>>

\* Each component's steps leave the other components' state alone.
OutsideAnalysis == UNCHANGED <<dashboardVars, mergeVars, batchVars>>

OutsideDashboard == UNCHANGED <<analysisVars, mergeVars, batchVars>>

OutsideMerge == UNCHANGED <<analysisVars, dashboardVars, batchVars>>

OutsideBatch == UNCHANGED <<analysisVars, dashboardVars, mergeVars>>

\* ------------------------------------------------------------------ fixtures

Rock == <<"r", "o", "c", "k">>
Pop  == <<"p", "o", "p">>
Jazz == <<"j", "a", "z", "z">>
JazzFunk == <<"j", "a", "z", "z", " ", "f", "u", "n", "k">>

Depressy == <<"d", "e", "p", "r", "e", "s", "s", "y">>
Chill    == <<"c", "h", "i", "l", "l">>
Party    == <<"p", "a", "r", "t", "y">>
Intense  == <<"i", "n", "t", "e", "n", "s", "e">>

\* The four vibe buttons of the Vibe Generator.
Vibes == {Depressy, Chill, Party, Intense}

\* The values the route parameter takes.
RouteIds == {"A", "B"}

Track(id, genres) == [id |-> id, uri |-> <<"spotify:track:", id>>, genres |-> genres]

T1 == Track("t1", <<Rock>>)
T2 == Track("t2", <<Pop, Rock>>)
T3 == Track("t3", <<>>)
T4 == Track("t4", <<Pop, JazzFunk>>)

\* analyze(playlist_ids) -> {metrics, genre_counts, tracks}.  The payload for
\* "B" has no track with audio features (the avg_* fields are omitted) and lists
\* a genre that none of the returned tracks carries, though one carries a genre
\* whose name begins with it.
AnalyzeResponse(id) ==
    IF id = "A"
    THEN [metrics |-> [total_tracks |-> 3, unique_artists |-> 2, total_genres |-> 2,
                       tracks_with_features |-> 2, avg_energy |-> 62,
                       avg_valence |-> 40, avg_danceability |-> 55, avg_tempo |-> 12050,
                       avg_acousticness |-> 21, avg_instrumentalness |-> 3],
          genre_counts |-> << <<Rock, 2>>, <<Pop, 1>> >>,
          tracks |-> <<T1, T2, T3>>]
    ELSE [metrics |-> [total_tracks |-> 1, unique_artists |-> 1, total_genres |-> 2,
                       tracks_with_features |-> 0],
          genre_counts |-> << <<Pop, 1>>, <<Jazz, 1>> >>,
          tracks |-> <<T4>>]

\* The uris the Vibe Classifier matches for the source playlists and the vibe.
VibeMatches(sourceIds, vibe) ==
    IF sourceIds = "A"
    THEN (IF vibe = Chill THEN <<T1.uri, T2.uri>>
          ELSE IF vibe = Party THEN <<T2.uri>> ELSE <<>>)
    ELSE (IF vibe = Party THEN <<T4.uri>> ELSE <<>>)

\* The libraries a session may start from: empty, holding a "Rock Mix" that
\* already has one of the rock tracks, or holding a "Rock Mix" in which the
\* user has put the same track twice.
InitialLibraries ==
    { <<>>,
      << [id |-> 1, name |-> MixName(Capitalize(Rock)), uris |-> <<T1.uri>>] >>,
      << [id |-> 1, name |-> MixName(Capitalize(Rock)), uris |-> <<T2.uri, T2.uri>>] >> }

\* The collaborator's write-batch limit (spec 4.6, "e.g. 100 per call"), scaled.
WriteBatch == 2

\* ------------------------------------------------------------------ Analysis.jsx

Title(text, arg) == [text |-> text, arg |-> arg]

Msg(text, added, skipped, playlist_id) ==
    [text |-> text, added |-> added, skipped |-> skipped, playlist_id |-> playlist_id]

NoClosure == [fn |-> "null", genre |-> <<>>, tracksToAdd |-> <<>>, vibe |-> <<>>, id |-> ""]

Modal(type, title, message, onConfirm) ==
    [isOpen |-> TRUE, type |-> type, title |-> title, message |-> message,
     onConfirm |-> onConfirm]

\* What the component renders: the loading screen, the failure line, or the page.
View == IF loading THEN "loading" ELSE IF data = Null THEN "failed" ELSE "analysis"

\* The page's own controls; the modal overlay (absolute inset-0 z-50) covers them
\* while the modal is open.
PageActive == View = "analysis" /\ ~modal.isOpen

\* Object.entries(data.genre_counts).slice(0, 50)
GenreEntries == SubSeq(data.genre_counts, 1, Min(50, Len(data.genre_counts)))

ShownGenres == {GenreEntries[i][1] : i \in 1..Len(GenreEntries)}

\* Whether text p is the beginning of text s.
StartsWith(s, p) == Len(p) <= Len(s) /\ SubSeq(s, 1, Len(p)) = p

\* A filter that takes a genre for matched when a genre of the track begins with it.
FilterByGenre_PrefixMatch(tracks, genre) ==
    SelectSeq(tracks, LAMBDA t : \E k \in 1..Len(t.genres) : StartsWith(t.genres[k], genre))

\* tracks.filter((t) => t.genres.includes(genre))
FilterByGenre(tracks, genre) == SelectSeq(tracks, LAMBDA t : Includes(t.genres, genre))

\* data.tracks.filter((t) => t.genres.includes(genre)).map((t) => t.uri)
TracksToAdd(genre) == MapUri(FilterByGenre(data.tracks, genre))

\* visibleTracks: the tracks of the selected genre, or all tracks when none is
VisibleTracks ==
    IF selectedGenre # NoGenre THEN FilterByGenre(data.tracks, selectedGenre)
    ELSE data.tracks

\* data.metrics.avg_*: reading a property the object lacks gives undefined.
Metric(name) ==
    IF name \in DOMAIN data.metrics
    THEN [defined |-> TRUE, value |-> data.metrics[name]]
    ELSE [defined |-> FALSE, value |-> 0]

AvgFields == <<"avg_energy", "avg_valence", "avg_danceability", "avg_tempo",
               "avg_acousticness", "avg_instrumentalness">>

\* A panel condition that also accepts a counter of 0.
FeaturePanelShown_AlsoZero ==
    Metric("tracks_with_features").defined /\ Metric("tracks_with_features").value >= 0

\* {data.metrics.tracks_with_features > 0 && (...)}: undefined > 0 is false
FeaturePanelShown ==
    Metric("tracks_with_features").defined /\ Metric("tracks_with_features").value > 0

\* The values the feature panel's six tiles render, none while it is not rendered.
FeatureTiles ==
    IF FeaturePanelShown THEN [i \in 1..Len(AvgFields) |-> Metric(AvgFields[i])]
    ELSE <<>>

\* useEffect(fetchAnalysis, [id]): the request for the current id is issued.
IssueFetch(id) == [fetches EXCEPT ![id] = @ + 1]

\* try branch of fetchAnalysis
FetchResolve(id) ==
    /\ fetches[id] > 0
    /\ fetches' = [fetches EXCEPT ![id] = @ - 1]
    /\ data' = AnalyzeResponse(id)
    /\ loading' = FALSE
    /\ lastFetch' = [id |-> id, outcome |-> "resolved"]
    /\ UNCHANGED <<routeId, selectedGenre, modal, createReq, posted, routeChanges, lastResponse, library, lastHandle>>
    /\ UNCHANGED fetchHist
    /\ OutsideAnalysis

\* catch branch of fetchAnalysis
FetchReject(id) ==
    /\ fetches[id] > 0
    /\ fetches' = [fetches EXCEPT ![id] = @ - 1]
    /\ loading' = FALSE
    /\ lastFetch' = [id |-> id, outcome |-> "rejected"]
    /\ UNCHANGED <<routeId, data, selectedGenre, modal, createReq, posted,
                   routeChanges, lastResponse, library, lastHandle>>
    /\ fetchHist' = [fetchHist EXCEPT !.rejected = TRUE]
    /\ OutsideAnalysis

\* The router hands the mounted component another id (history traversal between
\* two /analyze/:id entries): the effect runs again.
RouteChange(id) ==
    /\ id # routeId
    /\ routeChanges < MaxRouteChanges
    /\ routeId' = id
    /\ routeChanges' = routeChanges + 1
    /\ fetches' = IssueFetch(id)
    /\ UNCHANGED <<data, loading, selectedGenre, modal, createReq, posted, lastFetch, lastResponse, library, lastHandle>>
    /\ fetchHist' = [fetchHist EXCEPT
                        !.overlapped = @ \/ \E i \in RouteIds : fetches[i] > 0]
    /\ OutsideAnalysis

\* onClick of a genre row: setSelectedGenre(isSelected ? null : genre)
SelectGenre(genre) ==
    /\ PageActive
    /\ genre \in ShownGenres
    /\ selectedGenre' = IF selectedGenre = genre THEN NoGenre ELSE genre
    /\ UNCHANGED <<routeId, data, loading, modal, fetches, createReq, posted,
                   lastFetch, routeChanges, lastResponse, library, lastHandle>>
    /\ UNCHANGED fetchHist
    /\ OutsideAnalysis

\* "Back to all genres": setSelectedGenre(null)
BackToAllGenres ==
    /\ PageActive
    /\ selectedGenre # NoGenre
    /\ selectedGenre' = NoGenre
    /\ UNCHANGED <<routeId, data, loading, modal, fetches, createReq, posted,
                   lastFetch, routeChanges, lastResponse, library, lastHandle>>
    /\ UNCHANGED fetchHist
    /\ OutsideAnalysis

\* closeModal: setModal((prev) => ({ ...prev, isOpen: false }))
CloseModal(m) == [m EXCEPT !.isOpen = FALSE]

\* handleCreatePlaylist without its early return on an empty track list.
HandleCreatePlaylistModal_NoEarlyReturn(genre) ==
    Modal("confirm", Title("Create Mix?", Capitalize(genre)),
          Msg("This will create a new playlist", Len(TracksToAdd(genre)), 0, 0),
          [fn |-> "performCreate", genre |-> Capitalize(genre),
           tracksToAdd |-> TracksToAdd(genre), vibe |-> <<>>, id |-> ""])

\* The modal handleCreatePlaylist leaves: unchanged on the early return.
HandleCreatePlaylistModal(genre) ==
    LET tracksToAdd == TracksToAdd(genre)
        genreName == Capitalize(genre)
    IN  IF Len(tracksToAdd) = 0
        THEN modal
        ELSE Modal("confirm", Title("Create Mix?", genreName),
                   Msg("This will create a new playlist", Len(tracksToAdd), 0, 0),
                   [fn |-> "performCreate", genre |-> genreName,
                    tracksToAdd |-> tracksToAdd, vibe |-> <<>>, id |-> ""])

\* "Create Playlist" on the selected genre row
HandleCreatePlaylist(genre) ==
    /\ PageActive
    /\ genre \in ShownGenres
    /\ selectedGenre = genre
    /\ modal' = HandleCreatePlaylistModal(genre)
    /\ lastHandle' = IF Len(TracksToAdd(genre)) = 0 THEN "returned" ELSE "opened"
    /\ UNCHANGED <<routeId, data, loading, selectedGenre, fetches, createReq, posted,
                   lastFetch, routeChanges, lastResponse, library>>
    /\ UNCHANGED fetchHist
    /\ OutsideAnalysis

\* A vibe button (rendered when no genre is selected)
HandleCreateVibePlaylist(vibe) ==
    /\ PageActive
    /\ selectedGenre = NoGenre
    /\ modal' = Modal("confirm", Title("Generate Playlist?", vibe),
                      Msg("We will analyze your selected playlists", 0, 0, 0),
                      [fn |-> "performVibeCreate", genre |-> <<>>,
                       tracksToAdd |-> <<>>, vibe |-> vibe, id |-> routeId])
    /\ UNCHANGED <<routeId, data, loading, selectedGenre, fetches, createReq, posted,
                   lastFetch, routeChanges, lastResponse, library, lastHandle>>
    /\ UNCHANGED fetchHist
    /\ OutsideAnalysis

\* The body performCreate posts to /api/create_playlist
CreateBody(genre, tracksToAdd) ==
    [url |-> "/api/create_playlist", name |-> MixName(genre),
     track_uris |-> tracksToAdd, source_playlist_ids |-> "", vibe |-> <<>>]

\* The body performVibeCreate posts to /api/create_vibe_playlist
VibeBody(vibe, id) ==
    [url |-> "/api/create_vibe_playlist", name |-> MixName(Capitalize(vibe)),
     track_uris |-> <<>>, source_playlist_ids |-> id, vibe |-> vibe]

NoResponse == [ok |-> FALSE, hasDetail |-> FALSE, message |-> Msg("", 0, 0, 0),
               detail |-> Msg("", 0, 0, 0), created |-> 0, noop |-> FALSE]

\* A request as it travels: the body, and the engine's progress on it.
NewRequest(body) ==
    [body |-> body, stage |-> "sent", uris |-> <<>>, dest |-> 0, isNew |-> FALSE,
     before |-> <<>>, todo |-> <<>>, added |-> 0, skipped |-> 0,
     response |-> NoResponse]

\* performCreate up to its await: the loading modal, then the POST
PerformCreate(genre, tracksToAdd) ==
    /\ modal' = Modal("loading", Title("Creating Playlist", <<>>),
                      Msg("Talking to Spotify...", 0, 0, 0), NoClosure)
    /\ posted' = posted + 1
    /\ createReq' = NewRequest(CreateBody(genre, tracksToAdd))

\* performVibeCreate up to its await: the loading modal, then the POST
PerformVibeCreate(vibe, id) ==
    /\ modal' = Modal("loading", Title("Analyzing Vibes...", <<>>),
                      Msg("Scanning audio features and compiling your mix...", 0, 0, 0),
                      NoClosure)
    /\ posted' = posted + 1
    /\ createReq' = NewRequest(VibeBody(vibe, id))

\* "Create It via Magic": onClick={modal.onConfirm}, rendered for type confirm
ConfirmClick ==
    /\ View = "analysis"
    /\ modal.isOpen
    /\ modal.type = "confirm"
    /\ posted < MaxCreates
    /\ \/ /\ modal.onConfirm.fn = "performCreate"
          /\ PerformCreate(modal.onConfirm.genre, modal.onConfirm.tracksToAdd)
       \/ /\ modal.onConfirm.fn = "performVibeCreate"
          /\ PerformVibeCreate(modal.onConfirm.vibe, modal.onConfirm.id)
    /\ UNCHANGED <<routeId, data, loading, selectedGenre, fetches, lastFetch,
                   routeChanges, lastResponse, library, lastHandle>>
    /\ UNCHANGED fetchHist
    /\ OutsideAnalysis

\* "Cancel": onClick={closeModal}, rendered for type confirm
CancelClick ==
    /\ View = "analysis"
    /\ modal.isOpen
    /\ modal.type = "confirm"
    /\ modal' = CloseModal(modal)
    /\ UNCHANGED <<routeId, data, loading, selectedGenre, fetches, createReq, posted,
                   lastFetch, routeChanges, lastResponse, library, lastHandle>>
    /\ UNCHANGED fetchHist
    /\ OutsideAnalysis

\* "Got it": onClick={closeModal}, rendered for type success or error
GotItClick ==
    /\ View = "analysis"
    /\ modal.isOpen
    /\ modal.type \in {"success", "error"}
    /\ modal' = CloseModal(modal)
    /\ lastResponse' = Null
    /\ UNCHANGED <<routeId, data, loading, selectedGenre, fetches, createReq, posted,
                   lastFetch, routeChanges, library, lastHandle>>
    /\ UNCHANGED fetchHist
    /\ OutsideAnalysis

\* performCreate with a catch that only logs: the loading modal stays.
PerformCreateModal_CatchOnlyLogs(response) ==
    IF response.ok
    THEN Modal("success", Title("Playlist Created!", <<>>), response.message, NoClosure)
    ELSE modal

\* The modal performCreate sets once its POST has settled.
PerformCreateModal(response) ==
    IF response.ok
    THEN Modal("success", Title("Playlist Created!", <<>>), response.message, NoClosure)
    ELSE Modal("error", Title("Creation Failed", <<>>),
               Msg("Something went wrong while creating the playlist. Please try again.",
                   0, 0, 0),
               NoClosure)

\* The modal performVibeCreate sets once its POST has settled:
\* error.response?.data?.detail || "Could not generate playlist for this vibe."
PerformVibeCreateModal(response) ==
    IF response.ok
    THEN Modal("success", Title("Vibe playlist Created!", <<>>), response.message,
               NoClosure)
    ELSE Modal("error", Title("Generation Failed", <<>>),
               IF response.hasDetail
               THEN response.detail
               ELSE Msg("Could not generate playlist for this vibe.", 0, 0, 0),
               NoClosure)

Responded == createReq # Null /\ createReq.stage = "responded"

\* performCreate after its await (the rest of try, or catch)
PerformCreateSettled ==
    /\ Responded
    /\ createReq.body.url = "/api/create_playlist"
    /\ modal' = PerformCreateModal(createReq.response)
    /\ lastResponse' = [url |-> createReq.body.url, response |-> createReq.response]
    /\ createReq' = Null
    /\ UNCHANGED <<routeId, data, loading, selectedGenre, fetches, posted, lastFetch,
                   routeChanges, library, lastHandle>>
    /\ UNCHANGED fetchHist
    /\ OutsideAnalysis

\* performVibeCreate after its await (the rest of try, or catch)
PerformVibeCreateSettled ==
    /\ Responded
    /\ createReq.body.url = "/api/create_vibe_playlist"
    /\ modal' = PerformVibeCreateModal(createReq.response)
    /\ lastResponse' = [url |-> createReq.body.url, response |-> createReq.response]
    /\ createReq' = Null
    /\ UNCHANGED <<routeId, data, loading, selectedGenre, fetches, posted, lastFetch,
                   routeChanges, library, lastHandle>>
    /\ UNCHANGED fetchHist
    /\ OutsideAnalysis

\* ------------------------------------------------------------------ Playlist Materializer
\* (spec 4.6, 4.5, 7; the engine behind /api/create_playlist and
\* /api/create_vibe_playlist)

InFlight(stage) == createReq # Null /\ createReq.stage = stage

Rejection(error, playlist_id) ==
    [ok |-> FALSE, hasDetail |-> TRUE, message |-> Msg("", 0, 0, 0),
     detail |-> Msg(error, 0, 0, playlist_id), created |-> playlist_id, noop |-> FALSE]

\* The descriptive no-op result of a vibe request that matches no track.  How the
\* routing layer carries it (a normal response, or an error response with a
\* detail) is outside the engine; both are modelled.
NoOpResult(asError) ==
    [ok |-> ~asError, hasDetail |-> asError,
     message |-> Msg("No tracks matched this vibe", 0, 0, 0),
     detail |-> Msg("No tracks matched this vibe", 0, 0, 0),
     created |-> 0, noop |-> TRUE]

\* ValidationError: empty track list, blank name, unknown vibe name
Invalid(body) ==
    \/ IsBlank(body.name)
    \/ body.url = "/api/create_playlist" /\ body.track_uris = <<>>
    \/ body.url = "/api/create_vibe_playlist" /\ body.vibe \notin Vibes

\* The uris a request asks to add: the posted list, or the vibe's matches.
RequestedUris(body) ==
    IF body.url = "/api/create_playlist"
    THEN body.track_uris
    ELSE VibeMatches(body.source_playlist_ids, body.vibe)

BackendFrame ==
    UNCHANGED <<routeId, data, loading, selectedGenre, modal, fetches, posted,
                lastFetch, routeChanges, lastResponse, lastHandle>>

\* The request reaches the engine: validation, then (vibe) classification.
BackendAccept ==
    /\ InFlight("sent")
    /\ \E asError \in BOOLEAN :
          createReq' =
             IF Invalid(createReq.body)
             THEN [createReq EXCEPT !.stage = "responded",
                                    !.response = Rejection("ValidationError", 0)]
             ELSE IF RequestedUris(createReq.body) = <<>>
             THEN [createReq EXCEPT !.stage = "responded",
                                    !.response = NoOpResult(asError)]
             ELSE [createReq EXCEPT !.stage = "ready",
                                    !.uris = RequestedUris(createReq.body)]
    /\ UNCHANGED library
    /\ BackendFrame
    /\ UNCHANGED fetchHist
    /\ OutsideAnalysis

\* The request never gets a response (the transport fails).
NetworkError ==
    /\ InFlight("sent")
    /\ createReq' = [createReq EXCEPT !.stage = "responded", !.response = NoResponse]
    /\ UNCHANGED library
    /\ BackendFrame
    /\ UNCHANGED fetchHist
    /\ OutsideAnalysis

\* Index of the user's playlist with this name, 0 when there is none.
FindByName(lib, name) ==
    IF \E i \in 1..Len(lib) : lib[i].name = name
    THEN CHOOSE i \in 1..Len(lib) :
            /\ lib[i].name = name
            /\ \A j \in 1..(i - 1) : lib[j].name # name
    ELSE 0

\* createFromTracks without duplicate suppression: every requested uri is added.
NotPresent_NoSuppression(uris, dest) == uris

\* The requested uris that are not yet in the destination, in request order.
NotPresent(uris, dest) == SelectSeq(uris, LAMBDA u : ~Includes(dest, u))

\* createFromTracks, first half: the destination is the user's playlist of that
\* name, or a playlist created now; the uris it already holds are skipped.
BackendCreatePlaylist ==
    /\ InFlight("ready")
    /\ LET i == FindByName(library, createReq.body.name)
           isNew == i = 0
           id == IF isNew THEN Len(library) + 1 ELSE library[i].id
           before == IF isNew THEN <<>> ELSE library[i].uris
           todo == NotPresent(createReq.uris, before)
       IN  /\ library' = IF isNew
                         THEN Append(library, [id |-> id, name |-> createReq.body.name,
                                               uris |-> <<>>])
                         ELSE library
           /\ createReq' = [createReq EXCEPT !.stage = "adding", !.dest = id,
                                             !.isNew = isNew, !.before = before,
                                             !.todo = todo,
                                             !.skipped = Len(createReq.uris) - Len(todo)]
    /\ BackendFrame
    /\ UNCHANGED fetchHist
    /\ OutsideAnalysis

\* addTracks for the next write-batch
BackendAddBatch ==
    /\ InFlight("adding")
    /\ createReq.todo # <<>>
    /\ LET n == Min(WriteBatch, Len(createReq.todo))
           batch == SubSeq(createReq.todo, 1, n)
           i == CHOOSE k \in 1..Len(library) : library[k].id = createReq.dest
       IN  /\ library' = [library EXCEPT ![i].uris = @ \o batch]
           /\ createReq' = [createReq EXCEPT
                               !.todo = SubSeq(@, n + 1, Len(@)),
                               !.added = @ + n]
    /\ BackendFrame
    /\ UNCHANGED fetchHist
    /\ OutsideAnalysis

\* Every batch is written: the summary of added vs. skipped-as-duplicate.
BackendRespond ==
    /\ InFlight("adding")
    /\ createReq.todo = <<>>
    /\ createReq' = [createReq EXCEPT
          !.stage = "responded",
          !.response = [ok |-> TRUE, hasDetail |-> FALSE,
                        message |-> Msg("Added tracks", createReq.added,
                                        createReq.skipped, createReq.dest),
                        detail |-> Msg("", 0, 0, 0),
                        created |-> IF createReq.isNew THEN createReq.dest ELSE 0,
                        noop |-> FALSE]]
    /\ UNCHANGED library
    /\ BackendFrame
    /\ UNCHANGED fetchHist
    /\ OutsideAnalysis

\* A request-level failure (Unauthorized, CatalogUnavailable) before or after the
\* playlist was created; after creation the failure carries the created id.
BackendFail(error) ==
    /\ InFlight("ready") \/ (InFlight("adding") /\ createReq.todo # <<>>)
    /\ createReq' = [createReq EXCEPT
          !.stage = "responded",
          !.response = Rejection(error, IF createReq.isNew THEN createReq.dest ELSE 0)]
    /\ UNCHANGED library
    /\ BackendFrame
    /\ UNCHANGED fetchHist
    /\ OutsideAnalysis

\* ------------------------------------------------------------------ Dashboard.jsx

\* The reserved id of the saved-tracks pseudo-playlist (isLikedSongs).
Liked == "liked"

\* The ids of the playlists the user's library holds when the Dashboard mounts.
LibraryIds == {"p1", "p2"}

Playlist(id) == [id |-> id, name |-> <<"name of ", id>>]

\* listPlaylists(user): the reserved saved-tracks entry, then the followed playlists.
ListPlaylists(ids) ==
    <<Playlist(Liked)>> \o
    SelectSeq(<<Playlist("p1"), Playlist("p2")>>, LAMBDA p : p.id \in ids)

Ids(list) == {list[i].id : i \in 1..Len(list)}

NoPlaylist == [id |-> "", name |-> <<>>]

ClosedDeleteModal == [isOpen |-> FALSE, playlist |-> NoPlaylist, isDeleting |-> FALSE]

\* new Set(prev).add(id): a Set keeps insertion order and holds a value once.
SetAdd(set, id) == IF Includes(set, id) THEN set ELSE Append(set, id)

\* A delete that leaves the Set as it was.
SetDelete_KeepAll(set, id) == set

\* new Set(prev).delete(id)
SetDelete(set, id) == SelectSeq(set, LAMBDA x : x # id)

\* confirmDelete's filter that drops nothing it should: a comparison on names.
RemovePlaylist_ByName(list, id) == SelectSeq(list, LAMBDA p : p.name # id)

\* prev.filter((p) => p.id !== id)
RemovePlaylist(list, id) == SelectSeq(list, LAMBDA p : p.id # id)

\* A join that keeps only the first element of the selection.
Join_FirstOnly(set) == IF Len(set) = 0 THEN <<>> ELSE <<set[1]>>

\* Array.from(selectedPlaylists).join(",")
Join(set) ==
    [i \in 1..(IF Len(set) = 0 THEN 0 ELSE 2 * Len(set) - 1) |->
        IF i % 2 = 1 THEN set[(i + 1) \div 2] ELSE ","]

\* The cards and the header are live: the list has loaded, the delete modal's
\* overlay (fixed inset-0 z-50) is not over them, and the page is still mounted.
DashboardActive == ~dashLoading /\ ~deleteModal.isOpen /\ navigated = <<>>

DashboardFrame ==
    UNCHANGED <<followed, deleteCalls, lastDelete>>

\* try branch of fetchPlaylists
FetchPlaylistsResolve ==
    /\ listReq = "pending"
    /\ listReq' = "resolved"
    /\ playlists' = ListPlaylists(followed)
    /\ dashLoading' = FALSE
    /\ UNCHANGED <<selectedPlaylists, deleteModal, deleteReq, navigated, deleteAttempts>>
    /\ UNCHANGED toggles
    /\ DashboardFrame
    /\ OutsideDashboard

\* catch branch of fetchPlaylists
FetchPlaylistsReject ==
    /\ listReq = "pending"
    /\ listReq' = "rejected"
    /\ dashLoading' = FALSE
    /\ UNCHANGED <<playlists, selectedPlaylists, deleteModal, deleteReq, navigated,
                   deleteAttempts>>
    /\ UNCHANGED toggles
    /\ DashboardFrame
    /\ OutsideDashboard

\* onClick of a card
ToggleSelection(id) ==
    /\ DashboardActive
    /\ id \in Ids(playlists)
    /\ selectedPlaylists' = IF Includes(selectedPlaylists, id)
                            THEN SetDelete(selectedPlaylists, id)
                            ELSE SetAdd(selectedPlaylists, id)
    /\ UNCHANGED <<playlists, dashLoading, deleteModal, listReq, deleteReq, navigated,
                   deleteAttempts>>
    /\ toggles[id] < MaxToggles
    /\ toggles' = [toggles EXCEPT ![id] = @ + 1]
    /\ DashboardFrame
    /\ OutsideDashboard

\* "Analyze N Playlists" (rendered when the selection is not empty)
HandleAnalyze ==
    /\ DashboardActive
    /\ Len(selectedPlaylists) > 0
    /\ navigated' = IF Len(selectedPlaylists) = 0 THEN navigated
                    ELSE Join(selectedPlaylists)
    /\ UNCHANGED <<playlists, selectedPlaylists, dashLoading, deleteModal, listReq,
                   deleteReq, deleteAttempts>>
    /\ UNCHANGED toggles
    /\ DashboardFrame
    /\ OutsideDashboard

\* The trash button of a card (not rendered for Liked Songs)
OpenDeleteModal(playlist) ==
    /\ DashboardActive
    /\ playlist.id \in Ids(playlists)
    /\ playlist.id # Liked
    /\ deleteModal' = [isOpen |-> TRUE, playlist |-> playlist, isDeleting |-> FALSE]
    /\ UNCHANGED <<playlists, selectedPlaylists, dashLoading, listReq, deleteReq,
                   navigated, deleteAttempts>>
    /\ UNCHANGED toggles
    /\ DashboardFrame
    /\ OutsideDashboard

\* Buttons that stay enabled while a delete is pending.
DeleteButtonsEnabled_Always == TRUE

\* disabled={deleteModal.isDeleting} on Cancel and on Delete
DeleteButtonsEnabled == ~deleteModal.isDeleting

\* "Cancel" (disabled while isDeleting)
CloseDeleteModal ==
    /\ deleteModal.isOpen
    /\ DeleteButtonsEnabled
    /\ deleteModal' = ClosedDeleteModal
    /\ UNCHANGED <<playlists, selectedPlaylists, dashLoading, listReq, deleteReq,
                   navigated, deleteAttempts>>
    /\ UNCHANGED toggles
    /\ DashboardFrame
    /\ OutsideDashboard

\* "Delete" (disabled while isDeleting): confirmDelete up to its await
ConfirmDelete ==
    /\ deleteModal.isOpen
    /\ DeleteButtonsEnabled
    /\ deleteModal.playlist # NoPlaylist
    /\ deleteAttempts < MaxDeleteAttempts
    /\ deleteModal' = [deleteModal EXCEPT !.isDeleting = TRUE]
    /\ deleteReq' = [id |-> deleteModal.playlist.id, stage |-> "sent"]
    /\ deleteAttempts' = deleteAttempts + 1
    /\ UNCHANGED <<playlists, selectedPlaylists, dashLoading, listReq, navigated>>
    /\ UNCHANGED toggles
    /\ DashboardFrame
    /\ OutsideDashboard

\* confirmDelete after its await, try branch
ConfirmDeleteResolved ==
    /\ deleteReq # Null
    /\ deleteReq.stage = "done"
    /\ playlists' = RemovePlaylist(playlists, deleteReq.id)
    /\ selectedPlaylists' = SetDelete(selectedPlaylists, deleteReq.id)
    /\ deleteModal' = ClosedDeleteModal
    /\ deleteReq' = Null
    /\ UNCHANGED <<dashLoading, listReq, navigated, deleteAttempts>>
    /\ UNCHANGED toggles
    /\ DashboardFrame
    /\ OutsideDashboard

\* A catch branch that closes the modal as the try branch does.
ConfirmDeleteCatchModal_Closes(prev) == ClosedDeleteModal

\* setDeleteModal((prev) => ({ ...prev, isDeleting: false }))
ConfirmDeleteCatchModal(prev) == [prev EXCEPT !.isDeleting = FALSE]

\* confirmDelete after its await, catch branch
ConfirmDeleteRejected ==
    /\ deleteReq # Null
    /\ deleteReq.stage = "failed"
    /\ deleteModal' = ConfirmDeleteCatchModal(deleteModal)
    /\ deleteReq' = Null
    /\ UNCHANGED <<playlists, selectedPlaylists, dashLoading, listReq, navigated,
                   deleteAttempts>>
    /\ UNCHANGED toggles
    /\ DashboardFrame
    /\ OutsideDashboard

DashboardUI ==
    UNCHANGED <<playlists, selectedPlaylists, dashLoading, deleteModal, listReq,
                navigated, deleteAttempts, toggles>>

\* deletePlaylist(playlist_id) of the engine (spec 4.6): unfollow; a playlist that
\* is already absent is a success.
DeletePlaylist(lib, id) == lib \ {id}

DeleteResult(lib, id) == "success"

BackendDelete ==
    /\ deleteReq # Null
    /\ deleteReq.stage = "sent"
    /\ followed' = DeletePlaylist(followed, deleteReq.id)
    /\ deleteCalls' = [deleteCalls EXCEPT ![deleteReq.id] = @ + 1]
    /\ lastDelete' = [id |-> deleteReq.id, result |-> DeleteResult(followed, deleteReq.id),
                      wasAbsent |-> deleteReq.id \notin followed]
    /\ deleteReq' = [deleteReq EXCEPT
                        !.stage = IF DeleteResult(followed, deleteReq.id) = "success"
                                  THEN "done" ELSE "failed"]
    /\ DashboardUI
    /\ OutsideDashboard

\* The request fails before the engine unfollows (Unauthorized, CatalogUnavailable).
BackendDeleteFail ==
    /\ deleteReq # Null
    /\ deleteReq.stage = "sent"
    /\ deleteReq' = [deleteReq EXCEPT !.stage = "failed"]
    /\ DashboardUI
    /\ DashboardFrame
    /\ OutsideDashboard

\* The engine has unfollowed, but its response does not reach the browser.
DeleteResponseLost ==
    /\ deleteReq # Null
    /\ deleteReq.stage = "done"
    /\ deleteReq' = [deleteReq EXCEPT !.stage = "failed"]
    /\ DashboardUI
    /\ DashboardFrame
    /\ OutsideDashboard

\* ------------------------------------------------------------------ Track Merger
\* (spec 4.2, 5)

\* Page size of listPlaylistTracks, scaled.
PageSize == 2

\* The bounded worker count for concurrent fetches.
Workers == 2

SourceIds == {"x", "y", "z"}

\* The track listing of each source playlist: "x" and "y" share tracks, "z" is
\* empty (or inaccessible, which contributes the same).
Contents(pid) ==
    IF pid = "x" THEN <<[id |-> 1], [id |-> 2], [id |-> 3]>>
    ELSE IF pid = "y" THEN <<[id |-> 3], [id |-> 1], [id |-> 4]>>
    ELSE <<>>

\* A listing always has a first page; further pages while tracks remain.
NumPages(pid) ==
    IF Len(Contents(pid)) = 0 THEN 1
    ELSE (Len(Contents(pid)) + PageSize - 1) \div PageSize

MaxPages ==
    LET n == {NumPages(pid) : pid \in SourceIds}
    IN  CHOOSE m \in n : \A k \in n : k <= m

\* listPlaylistTracks(playlist_id, cursor): page k of the listing
Page(pid, k) ==
    SubSeq(Contents(pid), (k - 1) * PageSize + 1, Min(k * PageSize, Len(Contents(pid))))

AllSlots == (1..MaxSources) \X (1..MaxPages)

Slots(ids) == {s \in AllSlots : s[1] <= Len(ids) /\ s[2] <= NumPages(ids[s[1]])}

HasId(ts, id) == \E n \in 1..Len(ts) : ts[n].id = id

\* A merge that appends every track it reads.
Accumulate_KeepAll(ts, t) == Append(ts, t)

\* Keep the first occurrence, discard later duplicates by id.
Accumulate(ts, t) == IF HasId(ts, t.id) THEN ts ELSE Append(ts, t)

\* A merge that takes pages as they arrive: any fetched page not yet merged.
Mergeable_AsCompleted(s) ==
    /\ pageState[s] = "done"
    /\ s \in Slots(mergeIds)
    /\ \A n \in 1..Len(completions) :
          completions[n] = s => \A m \in 1..(n - 1) : pageState[completions[m]] = "merged"

\* The page the accumulation reads next: the one at the merge position, once its
\* fetch has completed.
Mergeable(s) ==
    /\ s = <<mergePos.i, mergePos.k>>
    /\ pageState[s] = "done"

InFlightFetches == Cardinality({s \in AllSlots : pageState[s] = "inflight"})

MergeFrame == UNCHANGED <<mergeIds>>

\* A merge request arrives with its playlist-id sequence.
StartMerge(ids) ==
    /\ mergePhase = "idle"
    /\ mergePhase' = IF ids = <<>> THEN "done" ELSE "running"
    /\ mergeIds' = ids
    /\ UNCHANGED <<pageState, buffer, mergePos, trackSet, completions>>
    /\ OutsideMerge

\* A fetch is issued: the first page of a listing, or a further page once the
\* first has told how many there are; at most Workers at a time.
IssueFetchPage(s) ==
    /\ mergePhase = "running"
    /\ s \in Slots(mergeIds)
    /\ pageState[s] = "none"
    /\ s[2] = 1 \/ pageState[<<s[1], 1>>] \in {"done", "merged"}
    /\ InFlightFetches < Workers
    /\ pageState' = [pageState EXCEPT ![s] = "inflight"]
    /\ UNCHANGED <<mergePhase, buffer, mergePos, trackSet, completions>>
    /\ MergeFrame
    /\ OutsideMerge

\* A fetch completes, in any order: its tracks are kept under its slot.
CompleteFetchPage(s) ==
    /\ mergePhase = "running"
    /\ pageState[s] = "inflight"
    /\ pageState' = [pageState EXCEPT ![s] = "done"]
    /\ buffer' = [buffer EXCEPT ![s] = Page(mergeIds[s[1]], s[2])]
    /\ completions' = Append(completions, s)
    /\ UNCHANGED <<mergePhase, mergePos, trackSet>>
    /\ MergeFrame
    /\ OutsideMerge

\* The accumulation takes the next track of the page it is reading.
MergeTrack(s) ==
    /\ mergePhase = "running"
    /\ Mergeable(s)
    /\ mergePos.j <= Len(buffer[s])
    /\ trackSet' = Accumulate(trackSet, buffer[s][mergePos.j])
    /\ mergePos' = [mergePos EXCEPT !.j = @ + 1]
    /\ UNCHANGED <<mergePhase, pageState, buffer, completions>>
    /\ MergeFrame
    /\ OutsideMerge

\* The page is exhausted: on to the next page, the next playlist, or the end.
MergeAdvance(s) ==
    /\ mergePhase = "running"
    /\ Mergeable(s)
    /\ mergePos.j > Len(buffer[s])
    /\ pageState' = [pageState EXCEPT ![s] = "merged"]
    /\ IF <<s[1], s[2] + 1>> \in Slots(mergeIds)
       THEN /\ mergePos' = [i |-> s[1], k |-> s[2] + 1, j |-> 1]
            /\ UNCHANGED mergePhase
       ELSE IF <<s[1] + 1, 1>> \in Slots(mergeIds)
       THEN /\ mergePos' = [i |-> s[1] + 1, k |-> 1, j |-> 1]
            /\ UNCHANGED mergePhase
       ELSE /\ mergePhase' = "done"
            /\ UNCHANGED mergePos
    /\ UNCHANGED <<buffer, trackSet, completions>>
    /\ MergeFrame
    /\ OutsideMerge

\* ------------------------------------------------------------------ Catalog Client
\* (spec 4.1, 7, 9)

\* The collaborator's maximum batch size, scaled.
BatchSize == 2

\* The configured bound on the retries of one chunk.
MaxRetries == 2

NumChunks(n) == (n + BatchSize - 1) \div BatchSize

NewChunk(ids) ==
    [ids |-> ids, state |-> "Pending", retries |-> 0, signals |-> 0, reason |-> "none"]

\* The ids 1..n cut into chunks of at most BatchSize.
ChunksOf(n) ==
    [c \in 1..NumChunks(n) |->
        NewChunk({id \in 1..n : (c - 1) * BatchSize < id /\ id <= c * BatchSize})]

\* A rate-limit signal that is always answered by another retry.
OnRateLimit_NoBudget(chunk) ==
    [chunk EXCEPT !.state = "Retryable", !.signals = @ + 1]

\* A rate-limit signal: retry while the budget lasts, then CatalogUnavailable.
OnRateLimit(chunk) ==
    IF chunk.retries < MaxRetries
    THEN [chunk EXCEPT !.state = "Retryable", !.signals = @ + 1]
    ELSE [chunk EXCEPT !.state = "Fatal", !.signals = @ + 1,
                       !.reason = "CatalogUnavailable"]

\* The condition a finished chunk makes the operation surface.
Surfaced(chunk) == IF chunk.state = "Fatal" THEN chunk.reason ELSE "none"

\* A fetch of n entity ids arrives and is cut into chunks.
StartBatches(n) ==
    /\ batchPhase = "idle"
    /\ chunks' = ChunksOf(n)
    /\ batchPhase' = IF n = 0 THEN "done" ELSE "running"
    /\ UNCHANGED failure
    /\ OutsideBatch

\* The next chunk is sent: chunks go out one after the other.
SendChunk(c) ==
    /\ c \in 1..Len(chunks)
    /\ batchPhase = "running"
    /\ chunks[c].state = "Pending"
    /\ \A b \in 1..(c - 1) : chunks[b].state = "Success"
    /\ chunks' = [chunks EXCEPT ![c].state = "InFlight"]
    /\ UNCHANGED <<batchPhase, failure>>
    /\ OutsideBatch

\* The collaborator answers with the records.
ChunkSucceeds(c) ==
    /\ c \in 1..Len(chunks)
    /\ chunks[c].state = "InFlight"
    /\ chunks' = [chunks EXCEPT ![c].state = "Success"]
    /\ batchPhase' = IF c = Len(chunks) THEN "done" ELSE batchPhase
    /\ UNCHANGED failure
    /\ OutsideBatch

\* The collaborator answers with a rate-limit signal.
ChunkRateLimited(c) ==
    /\ c \in 1..Len(chunks)
    /\ chunks[c].state = "InFlight"
    /\ chunks' = [chunks EXCEPT ![c] = OnRateLimit(chunks[c])]
    /\ failure' = Surfaced(chunks'[c])
    /\ batchPhase' = IF chunks'[c].state = "Fatal" THEN "failed" ELSE batchPhase
    /\ OutsideBatch

\* The collaborator rejects the credential: surfaced at once, no retry.
ChunkUnauthorized(c) ==
    /\ c \in 1..Len(chunks)
    /\ chunks[c].state = "InFlight"
    /\ chunks' = [chunks EXCEPT ![c].state = "Fatal", ![c].reason = "Unauthorized"]
    /\ failure' = "Unauthorized"
    /\ batchPhase' = "failed"
    /\ OutsideBatch

\* The backoff delay has passed: the same chunk is sent again.
RetryChunk(c) ==
    /\ c \in 1..Len(chunks)
    /\ chunks[c].state = "Retryable"
    /\ chunks' = [chunks EXCEPT ![c].state = "InFlight", ![c].retries = @ + 1]
    /\ UNCHANGED <<batchPhase, failure>>
    /\ OutsideBatch

\* ------------------------------------------------------------------ specification

InitModal ==
    [isOpen |-> FALSE, type |-> "confirm", title |-> Title("", <<>>),
     message |-> Msg("", 0, 0, 0), onConfirm |-> NoClosure]

\* Analysis mounted on a route id; its effect has issued the first fetch.
InitAnalysis ==
    /\ routeId \in RouteIds
    /\ data = Null
    /\ loading = TRUE
    /\ selectedGenre = NoGenre
    /\ modal = InitModal
    /\ fetches = [i \in RouteIds |-> IF i = routeId THEN 1 ELSE 0]
    /\ createReq = Null
    /\ posted = 0
    /\ lastFetch = [id |-> "", outcome |-> "none"]
    /\ lastHandle = "none"
    /\ routeChanges = 0
    /\ lastResponse = Null
    /\ fetchHist = [overlapped |-> FALSE, rejected |-> FALSE]
    /\ library \in InitialLibraries

\* Dashboard mounted; its effect has issued the listing request.
InitDashboard ==
    /\ playlists = <<>>
    /\ selectedPlaylists = <<>>
    /\ dashLoading = TRUE
    /\ deleteModal = ClosedDeleteModal
    /\ listReq = "pending"
    /\ deleteReq = Null
    /\ navigated = <<>>
    /\ followed = LibraryIds
    /\ deleteCalls = [id \in LibraryIds |-> 0]
    /\ deleteAttempts = 0
    /\ lastDelete = [id |-> "", result |-> "none", wasAbsent |-> FALSE]
    /\ toggles = [id \in LibraryIds \cup {Liked} |-> 0]

\* All sequences over S of length at most n.
SeqsUpTo(S, n) == UNION {[1..m -> S] : m \in 0..n}

InitMerge ==
    /\ mergePhase = "idle"
    /\ mergeIds = <<>>
    /\ pageState = [s \in AllSlots |-> "none"]
    /\ buffer = [s \in AllSlots |-> <<>>]
    /\ mergePos = [i |-> 1, k |-> 1, j |-> 1]
    /\ trackSet = <<>>
    /\ completions = <<>>

InitBatch ==
    /\ batchPhase = "idle"
    /\ chunks = <<>>
    /\ failure = "none"

\* One component runs at a time; the others rest in the state they are
\* constructed in.
Init == InitAnalysis /\ InitDashboard /\ InitMerge /\ InitBatch

Resting == Init /\ routeId = "A" /\ library = <<>>

NextAnalysis ==
    \/ \E id \in RouteIds : FetchResolve(id)
    \/ \E id \in RouteIds : FetchReject(id)
    \/ \E id \in RouteIds : RouteChange(id)
    \/ \E genre \in {Rock, Pop, Jazz} : SelectGenre(genre)
    \/ BackToAllGenres
    \/ \E genre \in {Rock, Pop, Jazz} : HandleCreatePlaylist(genre)
    \/ \E vibe \in Vibes : HandleCreateVibePlaylist(vibe)
    \/ ConfirmClick
    \/ CancelClick
    \/ GotItClick
    \/ PerformCreateSettled
    \/ PerformVibeCreateSettled
    \/ BackendAccept
    \/ NetworkError
    \/ BackendCreatePlaylist
    \/ BackendAddBatch
    \/ BackendRespond
    \/ \E error \in {"Unauthorized", "CatalogUnavailable"} : BackendFail(error)

NextDashboard ==
    \/ FetchPlaylistsResolve
    \/ FetchPlaylistsReject
    \/ \E id \in LibraryIds \cup {Liked} : ToggleSelection(id)
    \/ HandleAnalyze
    \/ \E id \in LibraryIds \cup {Liked} : OpenDeleteModal(Playlist(id))
    \/ CloseDeleteModal
    \/ ConfirmDelete
    \/ ConfirmDeleteResolved
    \/ ConfirmDeleteRejected
    \/ BackendDelete
    \/ BackendDeleteFail
    \/ DeleteResponseLost

\* The Analysis page and the engine behind it.
Next == NextAnalysis

Spec == Init /\ [][Next]_vars

\* The Dashboard page and the engine behind it.
DashboardSpec == Resting /\ [][NextDashboard]_vars

NextMerge ==
    \/ \E ids \in SeqsUpTo(SourceIds, MaxSources) : StartMerge(ids)
    \/ \E s \in AllSlots : IssueFetchPage(s)
    \/ \E s \in AllSlots : CompleteFetchPage(s)
    \/ \E s \in AllSlots : MergeTrack(s)
    \/ \E s \in AllSlots : MergeAdvance(s)

\* One merge request of the Track Merger.
MergeSpec == Resting /\ [][NextMerge]_vars

NextBatch ==
    \/ \E n \in 0..MaxIds : StartBatches(n)
    \/ \E c \in 1..NumChunks(MaxIds) : SendChunk(c)
    \/ \E c \in 1..NumChunks(MaxIds) : ChunkSucceeds(c)
    \/ \E c \in 1..NumChunks(MaxIds) : ChunkRateLimited(c)
    \/ \E c \in 1..NumChunks(MaxIds) : ChunkUnauthorized(c)
    \/ \E c \in 1..NumChunks(MaxIds) : RetryChunk(c)

\* One batched fetch of the Catalog Client.  The collaborator answers every
\* request, and a backoff delay ends.
BatchSpec ==
    /\ Resting
    /\ [][NextBatch]_vars
    /\ \A c \in 1..NumChunks(MaxIds) :
          /\ WF_vars(SendChunk(c))
          /\ WF_vars(ChunkSucceeds(c) \/ ChunkRateLimited(c) \/ ChunkUnauthorized(c))
          /\ WF_vars(RetryChunk(c))

\* The request settles: the engine answers and the awaiting handler resumes.
FairSpec ==
    /\ Spec
    /\ WF_vars(BackendAccept)
    /\ WF_vars(BackendCreatePlaylist)
    /\ WF_vars(BackendAddBatch)
    /\ WF_vars(BackendRespond)
    /\ WF_vars(PerformCreateSettled)
    /\ WF_vars(PerformVibeCreateSettled)

\* ------------------------------------------------------------------ claims

RECURSIVE Flatten(_)
\* The track listings of the requested playlists, one after the other.
Flatten(ids) == IF ids = <<>> THEN <<>> ELSE Contents(Head(ids)) \o Flatten(Tail(ids))

RECURSIVE FirstSeenFrom(_, _)
\* The entries of ts from n on whose id no earlier entry of ts has.
FirstSeenFrom(ts, n) ==
    IF n > Len(ts) THEN <<>>
    ELSE (IF \E m \in 1..(n - 1) : ts[m].id = ts[n].id THEN <<>> ELSE <<ts[n]>>)
         \o FirstSeenFrom(ts, n + 1)

\* C1: at every point of the accumulation, and in the final result, no two
\* entries of the TrackSet have the same track id.
C1_NoDuplicateIds ==
    \A m, n \in 1..Len(trackSet) : m # n => trackSet[m].id # trackSet[n].id

\* C1 witness: a merge has finished in which a later occurrence was discarded.
C1_Witness ==
    /\ mergePhase = "done"
    /\ trackSet # <<>>
    /\ Len(trackSet) < Len(Flatten(mergeIds))

\* C2: whatever the order in which the fetches complete, the final TrackSet is
\* the first-seen order over the requested playlist ids read left to right, then
\* track position.
C2_DeterministicOrder ==
    mergePhase = "done" => trackSet = FirstSeenFrom(Flatten(mergeIds), 1)

\* C2 witness: a merge has finished whose fetches completed out of request order.
C2_Witness ==
    /\ mergePhase = "done"
    /\ Len(trackSet) > 2
    /\ \E m, n \in 1..Len(completions) :
          /\ m < n
          /\ \/ completions[m][1] > completions[n][1]
             \/ /\ completions[m][1] = completions[n][1]
                /\ completions[m][2] > completions[n][2]

Terminal(c) == c \in 1..Len(chunks) /\ chunks[c].state \in {"Success", "Fatal"}

\* C3: a chunk follows Pending -> InFlight -> {Success, Retryable, Fatal}; a
\* rate-limit signal within the budget makes the same chunk Retryable and leaves
\* the operation running; a chunk is retried at most MaxRetries times; it ends
\* with CatalogUnavailable only when the budget is exhausted (Unauthorized ends it
\* at once); and every chunk that was sent ends in Success or Fatal.
C3_BoundedRetry ==
    /\ [](\A c \in 1..Len(chunks) :
            /\ chunks[c].retries <= MaxRetries
            /\ (chunks[c].state = "Fatal" /\ chunks[c].reason = "CatalogUnavailable")
                  => (chunks[c].retries = MaxRetries /\ chunks[c].signals = MaxRetries + 1)
            /\ chunks[c].state = "Fatal" =>
                  (batchPhase = "failed" /\ failure = chunks[c].reason))
    /\ [][\A c \in 1..Len(chunks) :
            /\ Len(chunks') = Len(chunks)
            /\ chunks'[c].ids = chunks[c].ids
            /\ chunks[c].state = "Pending" => chunks'[c].state \in {"Pending", "InFlight"}
            /\ chunks[c].state = "Retryable" =>
                  chunks'[c].state \in {"Retryable", "InFlight"}
            /\ chunks[c].state \in {"Success", "Fatal"} => chunks'[c] = chunks[c]
            /\ (chunks'[c].signals = chunks[c].signals + 1
                /\ chunks[c].retries < MaxRetries) =>
                  (chunks'[c].state = "Retryable" /\ batchPhase' = "running")
         ]_vars
    /\ \A c \in 1..NumChunks(MaxIds) :
          (c \in 1..Len(chunks) /\ chunks[c].state = "InFlight") ~> Terminal(c)

\* C3 witness: one chunk succeeded after a retry and a later one has used up its
\* budget and ended with CatalogUnavailable.
C3_Witness ==
    /\ failure = "CatalogUnavailable"
    /\ \E b, c \in 1..Len(chunks) :
          /\ chunks[b].state = "Success"
          /\ chunks[b].retries > 0
          /\ chunks[c].state = "Fatal"
          /\ chunks[c].retries = MaxRetries

\* C5: deletePlaylist succeeds every time; once it has run on an id the playlist
\* is absent from the library, and a further run leaves the library as the first
\* left it.  In the Dashboard a resolved delete leaves the playlist in neither
\* the list nor the selection, and removing it again changes neither.
C5_DeleteIdempotent ==
    /\ [](/\ lastDelete.result \in {"none", "success"}
          /\ \A id \in LibraryIds : deleteCalls[id] >= 1 => id \notin followed
          /\ \A id \in LibraryIds :
                /\ RemovePlaylist(RemovePlaylist(playlists, id), id)
                      = RemovePlaylist(playlists, id)
                /\ SetDelete(SetDelete(selectedPlaylists, id), id)
                      = SetDelete(selectedPlaylists, id))
    /\ [][/\ \A id \in LibraryIds :
                (deleteCalls'[id] = deleteCalls[id] + 1 /\ deleteCalls[id] >= 1) =>
                   (followed' = followed /\ lastDelete'.result = "success")
          /\ (deleteReq # Null /\ deleteReq.stage = "done" /\ deleteReq' = Null) =>
                /\ deleteReq.id \notin Ids(playlists')
                /\ ~Includes(selectedPlaylists', deleteReq.id)
                /\ ~deleteModal'.isOpen
         ]_vars

\* C5 witness: the engine has run deletePlaylist twice on one id (the first
\* response was lost), and the Dashboard has removed the playlist.
C5_Witness ==
    \E id \in LibraryIds :
       /\ deleteCalls[id] = 2
       /\ lastDelete = [id |-> id, result |-> "success", wasAbsent |-> TRUE]
       /\ deleteReq = Null
       /\ listReq = "resolved"
       /\ id \notin Ids(playlists)
       /\ ~deleteModal.isOpen

Count(seq, x) == Cardinality({i \in 1..Len(seq) : seq[i] = x})

\* C4: the front end never posts a create request with an empty track_uris list
\* or a blank name: every request in flight to /api/create_playlist carries at
\* least one uri and a name that is not blank, every confirm modal of
\* handleCreatePlaylist holds a non-empty list, and handleCreatePlaylist for a
\* genre that no track matches leaves the modal as it was.
C4_NoEmptyCreate ==
    /\ createReq # Null =>
          /\ ~IsBlank(createReq.body.name)
          /\ createReq.body.url = "/api/create_playlist" =>
                createReq.body.track_uris # <<>>
    /\ modal.onConfirm.fn = "performCreate" =>
          /\ modal.onConfirm.tracksToAdd # <<>>
          /\ ~IsBlank(MixName(modal.onConfirm.genre))
    /\ View = "analysis" =>
          \A genre \in ShownGenres :
             TracksToAdd(genre) = <<>> => HandleCreatePlaylistModal(genre) = modal

\* C4 witness: handleCreatePlaylist has returned early on a genre with no
\* matching track, no modal is open and nothing has been posted.
C4_Witness ==
    /\ lastHandle = "returned"
    /\ ~modal.isOpen
    /\ posted = 0
    /\ createReq = Null

\* C6 (as claimed): when a create request fails after the engine created the
\* playlist, the failure shown to the user carries the created playlist's id.
C6_FailureCarriesCreatedId ==
    (/\ modal.isOpen
     /\ modal.type = "error"
     /\ lastResponse # Null
     /\ lastResponse.response.hasDetail
     /\ lastResponse.response.created # 0)
    => modal.message.playlist_id = lastResponse.response.created

\* C7 (as claimed): a vibe request that matched no track creates no playlist and
\* is never shown to the user as a created playlist.
C7_NoCreatedOutcomeForNoOp ==
    (/\ modal.isOpen
     /\ lastResponse # Null
     /\ lastResponse.response.noop)
    => /\ modal.type # "success"
       /\ modal.title.text # "Vibe playlist Created!"

\* A create request whose tracks have all been written and whose summary is ready.
CreateDone ==
    /\ Responded
    /\ createReq.response.ok
    /\ ~createReq.response.noop

DestUris ==
    LET i == CHOOSE k \in 1..Len(library) : library[k].id = createReq.dest
    IN  library[i].uris

\* The parts of C8 that hold as claimed: skipped counts exactly the requested uris
\* already in the destination, every other requested uri is added, and the two
\* counts add up to the number of requested uris.
C8_Counts ==
    LET U == createReq.uris
        D == createReq.before
        r == createReq.response.message
    IN  /\ r.skipped = Cardinality({i \in 1..Len(U) : Includes(D, U[i])})
        /\ r.added = Cardinality({i \in 1..Len(U) : ~Includes(D, U[i])})
        /\ r.added + r.skipped = Len(U)
        /\ \A i \in 1..Len(U) : Includes(DestUris, U[i])

C10_SucceedsOrFailsOutright ==
    lastFetch.outcome # "none" =>
       /\ loading = FALSE
       /\ \/ lastFetch.outcome = "resolved" /\ data = AnalyzeResponse(lastFetch.id)
          \/ lastFetch.outcome = "rejected" /\ data = Null /\ View = "failed"

\* The pieces of a joined text between its separators.
RECURSIVE SplitOn(_, _)
SplitOn(s, sep) ==
    IF \A i \in 1..Len(s) : s[i] # sep
    THEN <<s>>
    ELSE LET k == CHOOSE i \in 1..Len(s) :
                     s[i] = sep /\ \A j \in 1..(i - 1) : s[j] # sep
         IN  <<SubSeq(s, 1, k - 1)>> \o SplitOn(SubSeq(s, k + 1, Len(s)), sep)

\* C11: once handleAnalyze has navigated, at least one playlist is selected and
\* the id list in the route holds every selected id exactly once and nothing
\* else; an id whose card was clicked an even number of times (never, or
\* toggled off again) is not in it.
C11_AnalyzeSelection ==
    navigated # <<>> =>
       LET ids == SplitOn(navigated, ",") IN
          /\ Len(selectedPlaylists) > 0
          /\ \A i \in 1..Len(ids) : \E id \in LibraryIds \cup {Liked} : ids[i] = <<id>>
          /\ \A id \in LibraryIds \cup {Liked} :
                /\ Count(ids, <<id>>) = (IF Includes(selectedPlaylists, id) THEN 1 ELSE 0)
                /\ toggles[id] % 2 = 0 => Count(ids, <<id>>) = 0

\* C11 witness: handleAnalyze navigated with two ids while a third playlist,
\* toggled on and off again, is still listed but not passed.
C11_Witness ==
    /\ navigated # <<>>
    /\ Len(SplitOn(navigated, ",")) = 2
    /\ \E id \in Ids(playlists) :
          /\ toggles[id] = 2
          /\ Count(SplitOn(navigated, ","), <<id>>) = 0

\* The positions of the tracks whose genres hold exactly the given genre.
MatchIdx(tracks, genre) ==
    {i \in 1..Len(tracks) : \E k \in 1..Len(tracks[i].genres) : tracks[i].genres[k] = genre}

\* Whether uris lists the uris of the tracks at the positions idx, each position
\* once and in ascending order.
IsSelection(uris, tracks, idx) ==
    /\ Len(uris) = Cardinality(idx)
    /\ \A k \in 1..Len(uris) :
          \E i \in idx : /\ Cardinality({j \in idx : j < i}) = k - 1
                         /\ uris[k] = tracks[i].uri

\* C12: the list handleCreatePlaylist hands to the confirmation is the uris of
\* the analysed tracks whose genres hold exactly the selected genre, each track
\* once and in the order of the analysed tracks; it is the list the filtered
\* track list shows; the request posted on confirmation carries that list; and
\* a track without genres is in no genre's list.
C12_GenreSubset ==
    /\ [](View = "analysis" /\ selectedGenre # NoGenre =>
            /\ IsSelection(MapUri(VisibleTracks), data.tracks,
                           MatchIdx(data.tracks, selectedGenre))
            /\ \A i \in 1..Len(VisibleTracks) : VisibleTracks[i].genres # <<>>)
    /\ [][/\ (~modal.isOpen /\ modal'.isOpen /\ modal'.onConfirm.fn = "performCreate") =>
                /\ selectedGenre # NoGenre
                /\ IsSelection(modal'.onConfirm.tracksToAdd, data.tracks,
                               MatchIdx(data.tracks, selectedGenre))
                /\ modal'.onConfirm.tracksToAdd = MapUri(VisibleTracks)
          /\ (createReq = Null /\ createReq' # Null
                 /\ createReq'.body.url = "/api/create_playlist") =>
                createReq'.body.track_uris = modal.onConfirm.tracksToAdd
         ]_vars

\* C12 witness: the request for the rock playlist of analysis "A" is posted with
\* the two rock tracks, in order, while the track without genres is left out.
C12_Witness ==
    /\ createReq # Null
    /\ createReq.body.url = "/api/create_playlist"
    /\ createReq.body.track_uris = <<T1.uri, T2.uri>>
    /\ selectedGenre = Rock
    /\ data = AnalyzeResponse("A")
    /\ Len(VisibleTracks) = 2

\* C13: whenever the analysis page is rendered, the audio-feature panel is shown
\* exactly when metrics.tracks_with_features is greater than 0; with a counter
\* of 0 and the mean fields omitted no tile is rendered, and a rendered tile
\* never shows a missing value.
C13_FeaturePanel ==
    View = "analysis" =>
       /\ FeaturePanelShown <=> data.metrics.tracks_with_features > 0
       /\ data.metrics.tracks_with_features = 0 => FeatureTiles = <<>>
       /\ \A i \in 1..Len(FeatureTiles) : FeatureTiles[i].defined
       /\ FeaturePanelShown => Len(FeatureTiles) = Len(AvgFields)

\* C13 witness: the analysis of "B", which has no track with audio features,
\* is on the page and the panel is not.
C13_Witness ==
    /\ View = "analysis"
    /\ data = AnalyzeResponse("B")
    /\ data.metrics.tracks_with_features = 0
    /\ "avg_energy" \notin DOMAIN data.metrics
    /\ ~FeaturePanelShown

\* C14: every id in selectedPlaylists is the id of a playlist in the playlists
\* list, selectedPlaylists holds no id twice, and a delete that resolves leaves
\* the deleted playlist in neither the list nor the selection.
C14_SelectionWithinList ==
    /\ [](/\ \A i \in 1..Len(selectedPlaylists) : selectedPlaylists[i] \in Ids(playlists)
          /\ \A i, j \in 1..Len(selectedPlaylists) :
                selectedPlaylists[i] = selectedPlaylists[j] => i = j)
    /\ [][(deleteReq # Null /\ deleteReq.stage = "done" /\ deleteReq' = Null) =>
             /\ deleteReq.id \notin Ids(playlists')
             /\ ~Includes(selectedPlaylists', deleteReq.id)
             /\ Ids(playlists') = Ids(playlists) \ {deleteReq.id}
         ]_vars

\* C14 witness: a playlist that was selected has been deleted and is gone from
\* the list and the selection, while another playlist is still selected.
C14_Witness ==
    \E id \in LibraryIds :
       /\ toggles[id] = 1
       /\ lastDelete.id = id
       /\ deleteReq = Null
       /\ ~deleteModal.isOpen
       /\ id \notin Ids(playlists)
       /\ ~Includes(selectedPlaylists, id)
       /\ Len(selectedPlaylists) > 0

C17_CurrentIdWins ==
    (/\ fetchHist.overlapped
     /\ ~fetchHist.rejected
     /\ \A id \in RouteIds : fetches[id] = 0) =>
       /\ View = "analysis"
       /\ data = AnalyzeResponse(routeId)

====
